---------------------------- MODULE Spec2Model ----------------------------
(***************************************************************************)
(* One run of main() of gdp_trade_balance_correlation/main.py: the menu    *)
(* choice, the country selection, the two calls of fetch_and_prepare_data  *)
(* (one loop iteration per step), and then either the charts page or the   *)
(* regression page (merge, per-country correlation, the display loop and   *)
(* the regression loop).  The remote provider behind fetch_series is the   *)
(* environment: each call answers with a series of observations, with an   *)
(* empty frame, or by raising.                                             *)
(***************************************************************************)
EXTENDS Integers, Sequences, FiniteSets, TLC

(***************************************************************************)
(* Bounds of the model.                                                    *)
(***************************************************************************)
MaxDate == 2          \* periods are 1..MaxDate
MaxVal == 1           \* observed values are 0..MaxVal
MaxRows == 4          \* observations the provider serves during one run

(***************************************************************************)
(* The catalog (main.py 17-34), its first two entries: the other four are  *)
(* treated by the code exactly as these two.                               *)
(***************************************************************************)
gdp_series ==
    "USA" :> "IMF/WEO:2024-04/USA.NGDP_RPCH.pcent_change" @@
    "China" :> "IMF/WEO:2024-04/CHN.NGDP_RPCH.pcent_change"

tb_series ==
    "USA" :> "CEPII/CHELEM-TRADE-INDIC/USA.BALGDP.TOTAL.TTGS" @@
    "China" :> "CEPII/CHELEM-TRADE-INDIC/CHN.BALGDP.TOTAL.TTGS"

\* list(gdp_series.keys()), the options of the multiselect (100, 206)
Countries == DOMAIN gdp_series

Pages == {"GDP Growth Rate & Trade Balance", "Regression Analysis", "Sources"}

Periods == 1..MaxDate
Values == 0..MaxVal

(***************************************************************************)
(* Sequences helpers.                                                      *)
(***************************************************************************)
Range(s) == {s[k] : k \in 1..Len(s)}

RECURSIVE Flatten(_)
Flatten(ss) == IF ss = <<>> THEN <<>> ELSE Head(ss) \o Flatten(Tail(ss))

\* the observations the calls logged in log have served
RECURSIVE Served(_)
Served(log) == IF log = <<>> THEN 0 ELSE Len(Head(log).df) + Served(Tail(log))

\* every ordering of every subset of S: what st.multiselect can return
Selections(S) ==
    {s \in UNION {[1..n -> S] : n \in 0..Cardinality(S)} :
        \A a, b \in 1..Len(s) : a # b => s[a] # s[b]}

(***************************************************************************)
(* What fetch_series can answer: the observations of one series, one per   *)
(* period, in period order.  The empty sequence is the empty frame.        *)
(***************************************************************************)
RECURSIVE Ordered(_, _)
Ordered(S, f) ==
    IF S = {} THEN <<>>
    ELSE LET d == CHOOSE x \in S : \A y \in S : x <= y
         IN  <<[original_period |-> d, original_value |-> f[d]]>> \o Ordered(S \ {d}, f)

SeriesFrames ==
    {Ordered(S, f) : <<S, f>> \in UNION {{<<S, f>> : f \in [S -> Values]} : S \in SUBSET Periods}}

(***************************************************************************)
(* fetch_and_prepare_data (main.py 37-47).                                 *)
(***************************************************************************)
\* the dict comprehension of the call sites (106, 112, 214, 219): insertion
\* order is the order of selected_countries
SeriesDict(catalog, sel) ==
    [k \in 1..Len(sel) |-> [country |-> sel[k], series_code |-> catalog[sel[k]]]]

\* Tag without line 45: the Country column is never filled in
TagNoCountry(df, country) ==
    [k \in 1..Len(df) |-> [Country |-> "",
                            Date |-> df[k].original_period,
                            Value |-> df[k].original_value]]

\* lines 42-45: rename the period and value columns, add the Country column
Tag(df, country) ==
    [k \in 1..Len(df) |-> [Country |-> country,
                            Date |-> df[k].original_period,
                            Value |-> df[k].original_value]]

\* MoreEntries stopping one entry short
MoreEntriesShort(n, mapping) == n + 1 < Len(mapping)

\* line 39: the for loop has another entry of series_dict to visit
MoreEntries(n, mapping) == n < Len(mapping)

\* line 41: df.empty
Empty(df) == Len(df) = 0

(***************************************************************************)
(* The correlation tab (main.py 223-243).                                  *)
(***************************************************************************)
\* the rows of right that carry the key of the row l of left, in right's order
Matches(l, right) ==
    LET hit(r) == r.Country = l.Country /\ r.Date = l.Date
        rs == SelectSeq(right, hit)
    IN  [k \in 1..Len(rs) |-> [Country |-> l.Country, Date |-> l.Date,
                                x |-> l.Value, y |-> rs[k].Value]]

\* Merge with on=["Country"] only: every pair of rows of one country joins
MergeOnCountry(left, right) ==
    LET pairs(l) ==
            LET hit(r) == r.Country = l.Country
                rs == SelectSeq(right, hit)
            IN  [k \in 1..Len(rs) |-> [Country |-> l.Country, Date |-> l.Date,
                                        x |-> l.Value, y |-> rs[k].Value]]
    IN  Flatten([k \in 1..Len(left) |-> pairs(left[k])])

\* pd.merge(left, right, on=["Country", "Date"]): how defaults to "inner";
\* x is the value column of left, y the value column of right
Merge(left, right) ==
    Flatten([k \in 1..Len(left) |-> Matches(left[k], right)])

\* df[df["Country"] == country] (275), also the group of country in groupby
CountryRows(df, country) ==
    LET of(r) == r.Country = country
    IN  SelectSeq(df, of)

RECURSIVE Sum(_)
Sum(s) == IF s = <<>> THEN 0 ELSE Head(s) + Sum(Tail(s))

RECURSIVE GCD(_, _)
GCD(a, b) == IF b = 0 THEN a ELSE GCD(b, a % b)

Sign(a) == IF a > 0 THEN 1 ELSE IF a < 0 THEN -1 ELSE 0

NaN == [nan |-> TRUE, sgn |-> 0, num |-> 0, den |-> 1]

\* Pearson answering 0 where the divisor is 0
PearsonZero(rows) ==
    LET n   == Len(rows)
        sx  == Sum([k \in 1..n |-> rows[k].x])
        sy  == Sum([k \in 1..n |-> rows[k].y])
        sxx == Sum([k \in 1..n |-> rows[k].x * rows[k].x])
        syy == Sum([k \in 1..n |-> rows[k].y * rows[k].y])
        sxy == Sum([k \in 1..n |-> rows[k].x * rows[k].y])
        cov == n * sxy - sx * sy
        ssx == n * sxx - sx * sx
        ssy == n * syy - sy * sy
        g   == GCD(cov * cov, ssx * ssy)
    IN  IF ssx * ssy = 0 THEN [nan |-> FALSE, sgn |-> 0, num |-> 0, den |-> 1]
        ELSE [nan |-> FALSE, sgn |-> Sign(cov),
              num |-> (cov * cov) \div g, den |-> (ssx * ssy) \div g]

\* Pearson's r of the columns x and y of rows, as pandas computes it:
\* cov / sqrt(ssx * ssy), NaN when that divisor is 0.  The coefficient is
\* kept exactly, as its sign and the reduced fraction num/den of its square.
Pearson(rows) ==
    LET n   == Len(rows)
        sx  == Sum([k \in 1..n |-> rows[k].x])
        sy  == Sum([k \in 1..n |-> rows[k].y])
        sxx == Sum([k \in 1..n |-> rows[k].x * rows[k].x])
        syy == Sum([k \in 1..n |-> rows[k].y * rows[k].y])
        sxy == Sum([k \in 1..n |-> rows[k].x * rows[k].y])
        cov == n * sxy - sx * sy
        ssx == n * sxx - sx * sx
        ssy == n * syy - sy * sy
        g   == GCD(cov * cov, ssx * ssy)
    IN  IF ssx * ssy = 0 THEN NaN
        ELSE [nan |-> FALSE, sgn |-> Sign(cov),
              num |-> (cov * cov) \div g, den |-> (ssx * ssy) \div g]

\* GroupCorr reading the column x of the matrix: the correlation of x with x
GroupCorrFirstColumn(df) ==
    LET xx(rows) == [k \in 1..Len(rows) |-> [x |-> rows[k].x, y |-> rows[k].x]]
    IN  [c \in {df[k].Country : k \in 1..Len(df)} |-> Pearson(xx(CountryRows(df, c)))]

\* groupby("Country")[[x, y]].corr().iloc[0::2][y]: one entry per country
\* that has rows in df
GroupCorr(df) ==
    [c \in {df[k].Country : k \in 1..Len(df)} |-> Pearson(CountryRows(df, c))]

\* correlations.loc[country] finds the label
HasLabel(corrs, country) == country \in DOMAIN corrs

\* f"{corr_value:.2f}": "nan", or the coefficient rounded to hundredths
\* (half to even), with its sign
Format2f(r) ==
    IF r.nan THEN [nan |-> TRUE, neg |-> FALSE, hundredths |-> 0]
    ELSE LET fits(k) == /\ (k = 0 \/ (2 * k - 1) * (2 * k - 1) * r.den <= 40000 * r.num)
                        /\ 40000 * r.num <= (2 * k + 1) * (2 * k + 1) * r.den
             ks == {k \in 0..100 : fits(k)}
             h  == IF Cardinality(ks) = 1 THEN CHOOSE k \in ks : TRUE
                   ELSE CHOOSE k \in ks : k % 2 = 0
         IN  [nan |-> FALSE, neg |-> r.sgn < 0, hundredths |-> h]

(***************************************************************************)
(* The regression tab (main.py 274-284).                                   *)
(***************************************************************************)
\* sm.add_constant / sm.OLS on a frame without rows raise ValueError; with
\* at least one row the model is fitted, whatever the number of rows
FitRaises(df_country) == Len(df_country) = 0

\* st.write(model.summary())
OLSSummary(country, df_country) ==
    [out |-> "regression", country |-> country, nobs |-> Len(df_country)]

VARIABLES
    pc,                  \* where the run of main() is
    selected,            \* the menu choice (line 84)
    selected_countries,  \* the multiselect (98, 204)
    indicator,           \* which call of fetch_and_prepare_data is running
    visited,             \* entries of series_dict the loop has consumed
    dfs,                 \* the list dfs of the running call
    df_gdp_all,          \* 105 / 213
    df_tb_all,           \* 111 / 218
    returned,            \* the calls of fetch_and_prepare_data that returned
    correlation_df,      \* 223
    correlations,        \* 226
    cursor,              \* position of the display / regression loops
    shown,               \* what the page has written so far
    error,               \* the exception that ended the run, or "none"
    calls                \* log of the calls of fetch_series, per indicator

vars == <<pc, selected, selected_countries, indicator, visited, dfs, df_gdp_all,
          df_tb_all, returned, correlation_df, correlations, cursor, shown, error, calls>>

Catalog(ind) == IF ind = "gdp" THEN gdp_series ELSE tb_series

series_dict == SeriesDict(Catalog(indicator), selected_countries)

RowsServed == Served(calls["gdp"]) + Served(calls["tb"])

Init ==
    /\ pc = "menu"
    /\ selected \in Pages
    /\ selected_countries = <<>>
    /\ indicator = "gdp"
    /\ visited = 0
    /\ dfs = <<>>
    /\ df_gdp_all = <<>>
    /\ df_tb_all = <<>>
    /\ returned = {}
    /\ correlation_df = <<>>
    /\ correlations = <<>>
    /\ cursor = 0
    /\ shown = <<>>
    /\ error = "none"
    /\ calls = [ind \in {"gdp", "tb"} |-> <<>>]

\* lines 98-102 / 204-208: the country selection of the two data pages
SelectCountries ==
    /\ pc = "menu"
    /\ selected # "Sources"
    /\ selected_countries' \in Selections(Countries)
    /\ pc' = "fetch"
    /\ UNCHANGED <<selected, indicator, visited, dfs, df_gdp_all, df_tb_all, returned,
                   correlation_df, correlations, cursor, shown, error, calls>>

\* lines 335-341: the static page of the data sources
Sources ==
    /\ pc = "menu"
    /\ selected = "Sources"
    /\ shown' = Append(shown, [out |-> "sources", country |-> ""])
    /\ pc' = "done"
    /\ UNCHANGED <<selected, selected_countries, indicator, visited, dfs, df_gdp_all,
                   df_tb_all, returned, correlation_df, correlations, cursor, error, calls>>

\* lines 39-46: one iteration of the loop, fetch_series returns a frame
FetchReturns ==
    /\ pc = "fetch"
    /\ MoreEntries(visited, series_dict)
    /\ LET entry == series_dict[visited + 1]
           room  == MaxRows - RowsServed
       IN  \E df \in {f \in SeriesFrames : Len(f) <= room} :
              /\ calls' = [calls EXCEPT ![indicator] =
                                Append(@, [country |-> entry.country,
                                           series_code |-> entry.series_code,
                                           raised |-> FALSE, df |-> df])]
              /\ dfs' = (IF ~Empty(df) THEN Append(dfs, Tag(df, entry.country)) ELSE dfs)
    /\ visited' = visited + 1
    /\ UNCHANGED <<pc, selected, selected_countries, indicator, df_gdp_all, df_tb_all,
                   returned, correlation_df, correlations, cursor, shown, error>>

\* line 40: fetch_series raises; nothing catches it, the run ends
FetchRaises ==
    /\ pc = "fetch"
    /\ MoreEntries(visited, series_dict)
    /\ LET entry == series_dict[visited + 1]
       IN  calls' = [calls EXCEPT ![indicator] =
                        Append(@, [country |-> entry.country,
                                   series_code |-> entry.series_code,
                                   raised |-> TRUE, df |-> <<>>])]
    /\ error' = "DataSourceError"
    /\ pc' = "done"
    /\ UNCHANGED <<selected, selected_countries, indicator, visited, dfs, df_gdp_all,
                   df_tb_all, returned, correlation_df, correlations, cursor, shown>>

\* line 47: pd.concat(dfs) raises ValueError on an empty list
Concat ==
    /\ pc = "fetch"
    /\ ~MoreEntries(visited, series_dict)
    /\ IF dfs = <<>>
       THEN /\ error' = "ValueError"
            /\ pc' = "done"
            /\ UNCHANGED <<indicator, visited, dfs, df_gdp_all, df_tb_all, returned>>
       ELSE /\ IF indicator = "gdp"
               THEN /\ df_gdp_all' = Flatten(dfs)
                    /\ indicator' = "tb"
                    /\ pc' = "fetch"
                    /\ UNCHANGED df_tb_all
               ELSE /\ df_tb_all' = Flatten(dfs)
                    /\ pc' = (IF selected = "Regression Analysis" THEN "merge" ELSE "charts")
                    /\ UNCHANGED <<df_gdp_all, indicator>>
            /\ returned' = returned \cup {indicator}
            /\ visited' = 0
            /\ dfs' = <<>>
            /\ UNCHANGED error
    /\ UNCHANGED <<selected, selected_countries, correlation_df, correlations, cursor,
                   shown, calls>>

\* lines 117-202: the warning, or the two charts
Charts ==
    /\ pc = "charts"
    /\ shown' = (IF Empty(df_gdp_all) \/ Empty(df_tb_all)
                 THEN Append(shown, [out |-> "warning", country |-> ""])
                 ELSE shown \o <<[out |-> "chart_gdp", country |-> ""],
                                 [out |-> "chart_tb", country |-> ""]>>)
    /\ pc' = "done"
    /\ UNCHANGED <<selected, selected_countries, indicator, visited, dfs, df_gdp_all,
                   df_tb_all, returned, correlation_df, correlations, cursor, error, calls>>

\* lines 223-225: pd.merge(df_gdp_all, df_tb_all, on=["Country", "Date"])
MergeStep ==
    /\ pc = "merge"
    /\ correlation_df' = Merge(df_gdp_all, df_tb_all)
    /\ pc' = "corr"
    /\ UNCHANGED <<selected, selected_countries, indicator, visited, dfs, df_gdp_all,
                   df_tb_all, returned, correlations, cursor, shown, error, calls>>

\* lines 226-232: groupby("Country")[...].corr().iloc[0::2][...]
CorrStep ==
    /\ pc = "corr"
    /\ correlations' = GroupCorr(correlation_df)
    /\ cursor' = 0
    /\ pc' = "show"
    /\ UNCHANGED <<selected, selected_countries, indicator, visited, dfs, df_gdp_all,
                   df_tb_all, returned, correlation_df, shown, error, calls>>

\* lines 239-243: one iteration of the display loop of tab1; correlations.loc
\* raises KeyError for a label the index does not hold
ShowCorrelation ==
    /\ pc = "show"
    /\ cursor < Len(selected_countries)
    /\ LET country == selected_countries[cursor + 1]
       IN  IF HasLabel(correlations, country)
           THEN /\ shown' = Append(shown, [out |-> "correlation", country |-> country,
                                           text |-> Format2f(correlations[country])])
                /\ cursor' = cursor + 1
                /\ UNCHANGED <<pc, error>>
           ELSE /\ error' = "KeyError"
                /\ pc' = "done"
                /\ UNCHANGED <<shown, cursor>>
    /\ UNCHANGED <<selected, selected_countries, indicator, visited, dfs, df_gdp_all,
                   df_tb_all, returned, correlation_df, correlations, calls>>

\* line 239 exhausted, tab2 begins (262-273)
ShowDone ==
    /\ pc = "show"
    /\ cursor = Len(selected_countries)
    /\ cursor' = 0
    /\ pc' = "regress"
    /\ UNCHANGED <<selected, selected_countries, indicator, visited, dfs, df_gdp_all,
                   df_tb_all, returned, correlation_df, correlations, shown, error, calls>>

\* lines 274-284: one iteration of the regression loop of tab2
Regress ==
    /\ pc = "regress"
    /\ cursor < Len(selected_countries)
    /\ LET country == selected_countries[cursor + 1]
           df_country == CountryRows(correlation_df, country)
       IN  IF FitRaises(df_country)
           THEN /\ error' = "ValueError"
                /\ pc' = "done"
                /\ UNCHANGED <<shown, cursor>>
           ELSE /\ shown' = Append(shown, OLSSummary(country, df_country))
                /\ cursor' = cursor + 1
                /\ UNCHANGED <<pc, error>>
    /\ UNCHANGED <<selected, selected_countries, indicator, visited, dfs, df_gdp_all,
                   df_tb_all, returned, correlation_df, correlations, calls>>

\* line 274 exhausted; tab3 is static text (285-332)
RegressDone ==
    /\ pc = "regress"
    /\ cursor = Len(selected_countries)
    /\ pc' = "done"
    /\ UNCHANGED <<selected, selected_countries, indicator, visited, dfs, df_gdp_all,
                   df_tb_all, returned, correlation_df, correlations, cursor, shown,
                   error, calls>>

Next ==
    \/ SelectCountries
    \/ Sources
    \/ FetchReturns
    \/ FetchRaises
    \/ Concat
    \/ Charts
    \/ MergeStep
    \/ CorrStep
    \/ ShowCorrelation
    \/ ShowDone
    \/ Regress
    \/ RegressDone

\* every run of main()
Spec == Init /\ [][Next]_vars

\* the runs with the menu on "Regression Analysis"
InitRegression == Init /\ selected = "Regression Analysis"

NextRegression ==
    \/ SelectCountries
    \/ FetchReturns
    \/ FetchRaises
    \/ Concat
    \/ MergeStep
    \/ CorrStep
    \/ ShowCorrelation
    \/ ShowDone
    \/ Regress
    \/ RegressDone

SpecRegression == InitRegression /\ [][NextRegression]_vars

\* the runs with the menu on one of the two other pages
InitCharts == Init /\ selected # "Regression Analysis"

NextCharts ==
    \/ SelectCountries
    \/ Sources
    \/ FetchReturns
    \/ FetchRaises
    \/ Concat
    \/ Charts

SpecCharts == InitCharts /\ [][NextCharts]_vars

(***************************************************************************)
(* What the run has done so far, read off the state.                       *)
(***************************************************************************)
Indicators == {"gdp", "tb"}

CallsOf(ind) == calls[ind]

Result(ind) == IF ind = "gdp" THEN df_gdp_all ELSE df_tb_all

\* fetch_and_prepare_data has been entered for ind
Started(ind) ==
    IF ind = "gdp" THEN pc # "menu" /\ selected # "Sources" ELSE "gdp" \in returned

Running(ind) == pc = "fetch" /\ indicator = ind

\* the call for ind is over, by a return or by an exception
Left(ind) == Started(ind) /\ ~Running(ind)

\* every entity of the mapping was fetched and every answer was an empty frame
AllEmpty(ind) ==
    /\ Len(CallsOf(ind)) = Len(selected_countries)
    /\ \A k \in 1..Len(CallsOf(ind)) :
          ~CallsOf(ind)[k].raised /\ CallsOf(ind)[k].df = <<>>

SomeRaised(ind) == \E k \in 1..Len(CallsOf(ind)) : CallsOf(ind)[k].raised

\* the loop of the call for ind is exhausted: line 47 is next
AtConcat(ind) == Running(ind) /\ ~MoreEntries(visited, series_dict)

\* line 223 has been executed
Merged ==
    /\ selected = "Regression Analysis"
    /\ Indicators \subseteq returned
    /\ pc \in {"corr", "show", "regress", "done"}

\* line 226 has been executed
Correlated == Merged /\ pc # "corr"

\* the display loop of tab1 is over, by exhaustion or by an exception
CorrelationTabOver == Correlated /\ pc # "show"

\* the (entity, date) pairs of a dataset
Keys(df) == {<<df[k].Country, df[k].Date>> : k \in 1..Len(df)}

HasKey(df, c, d) == \E k \in 1..Len(df) : df[k].Country = c /\ df[k].Date = d

\* the joined records of country: fewer than 2, or constant in x or in y
Degenerate(rows) ==
    \/ Len(rows) < 2
    \/ \A a, b \in 1..Len(rows) : rows[a].x = rows[b].x
    \/ \A a, b \in 1..Len(rows) : rows[a].y = rows[b].y

ShownFor(out, country) ==
    {k \in 1..Len(shown) : shown[k].out = out /\ shown[k].country = country}

PositionOf(country) ==
    CHOOSE k \in 1..Len(selected_countries) : selected_countries[k] = country

(***************************************************************************)
(* C1: when every fetch of a mapping (the empty mapping included) answers  *)
(* with an empty frame, fetch_and_prepare_data returns an empty dataset    *)
(* and does not end in an error.                                           *)
(***************************************************************************)
C1_AllEmptyReturnsEmpty ==
    \A ind \in Indicators :
        (Left(ind) /\ AllEmpty(ind)) => (ind \in returned /\ Empty(Result(ind)))

(***************************************************************************)
(* C2: when the fetch of one entity raises, every other entity of the      *)
(* mapping is still fetched.                                               *)
(***************************************************************************)
C2_FailureDoesNotAbortOthers ==
    \A ind \in Indicators :
        (Left(ind) /\ SomeRaised(ind)) =>
            \A c \in Range(selected_countries) :
                \E k \in 1..Len(CallsOf(ind)) : CallsOf(ind)[k].country = c

(***************************************************************************)
(* C3: once the display loop of the correlation tab is over, every         *)
(* selected entity without joined records has an output entry carrying     *)
(* the undefined marker, and the loop did not fail.                        *)
(***************************************************************************)
C3_ZeroJoinedStillReported ==
    CorrelationTabOver =>
        \A c \in Range(selected_countries) :
            CountryRows(correlation_df, c) = <<>> =>
                /\ error # "KeyError"
                /\ \E k \in ShownFor("correlation", c) : shown[k].text.nan

C5_NoFitBelowThreeRecords ==
    \A k \in 1..Len(shown) :
        shown[k].out = "regression" => shown[k].nobs >= 3

(***************************************************************************)
(* C6: the dataset returned by fetch_and_prepare_data holds exactly the    *)
(* observations of the non-empty fetches: each of them once, under the     *)
(* entity its series identifier is mapped to, and nothing else.            *)
(***************************************************************************)
C6_ReturnedIsTaggedObservations ==
    \A ind \in returned :
        LET log  == CallsOf(ind)
            res  == Result(ind)
            want == {[Country |-> log[a[1]].country,
                      Date |-> log[a[1]].df[a[2]].original_period,
                      Value |-> log[a[1]].df[a[2]].original_value] :
                        a \in UNION {{<<k, b>> : b \in 1..Len(log[k].df)} : k \in 1..Len(log)}}
        IN  /\ Range(res) = want
            /\ Len(res) = Cardinality(want)
            /\ \A k \in 1..Len(log) :
                  /\ log[k].country \in Range(selected_countries)
                  /\ log[k].series_code = Catalog(ind)[log[k].country]

C6_Witness ==
    /\ "gdp" \in returned
    /\ Len(CallsOf("gdp")) = 2
    /\ \E a, b \in 1..2 : /\ CallsOf("gdp")[a].df = <<>>
                          /\ Len(CallsOf("gdp")[b].df) = 2

(***************************************************************************)
(* C7: the joined dataset is the inner join on (entity, date): a pair is   *)
(* in it exactly when it is in both datasets, and the x and y of its       *)
(* record are the values of the pair in the GDP and trade-balance data.    *)
(***************************************************************************)
C7_JoinIsInner ==
    Merged =>
        /\ Keys(correlation_df) = Keys(df_gdp_all) \cap Keys(df_tb_all)
        /\ {<<r.Country, r.Date, r.x>> : r \in Range(correlation_df)} \subseteq
               {<<r.Country, r.Date, r.Value>> : r \in Range(df_gdp_all)}
        /\ {<<r.Country, r.Date, r.y>> : r \in Range(correlation_df)} \subseteq
               {<<r.Country, r.Date, r.Value>> : r \in Range(df_tb_all)}

C7_Witness ==
    /\ Merged
    /\ \E c \in Countries, d, e \in Periods :
          /\ HasKey(correlation_df, c, d)
          /\ HasKey(df_gdp_all, c, e) /\ ~HasKey(df_tb_all, c, e)
          /\ ~HasKey(correlation_df, c, e)
    /\ \E k \in 1..Len(correlation_df) : correlation_df[k].x # correlation_df[k].y

(***************************************************************************)
(* C8: correlating the trade-balance data with the GDP data gives the      *)
(* results the run computed from GDP with trade balance: the same          *)
(* entities, and the same coefficient for each.                            *)
(***************************************************************************)
C8_CorrelationIsSymmetric ==
    Correlated => GroupCorr(Merge(df_tb_all, df_gdp_all)) = correlations

C8_Witness ==
    /\ Correlated
    /\ \E c \in DOMAIN correlations : ~correlations[c].nan /\ correlations[c].sgn = -1

(***************************************************************************)
(* C9: when the loop of fetch_and_prepare_data is over, and so whenever    *)
(* the aggregated dataset of an indicator exists, the indicator has        *)
(* exactly one result per entity of the mapping, empty ones included,      *)
(* each logged under its entity and series identifier, in whatever order   *)
(* the selection lists the entities.                                       *)
(***************************************************************************)
C9_OneResultPerEntityBeforeConcat ==
    \A ind \in Indicators :
        (AtConcat(ind) \/ ind \in returned) =>
            /\ Len(CallsOf(ind)) = Len(selected_countries)
            /\ \A k \in 1..Len(selected_countries) :
                  /\ CallsOf(ind)[k].country = selected_countries[k]
                  /\ CallsOf(ind)[k].series_code = Catalog(ind)[selected_countries[k]]
                  /\ ~CallsOf(ind)[k].raised

C9_Witness ==
    /\ "tb" \in returned
    /\ selected_countries = <<"China", "USA">>
    /\ \E k \in 1..2 : CallsOf("tb")[k].df = <<>>

(***************************************************************************)
(* C10: on the charts page, whatever the selection and the answers of the  *)
(* fetches, the run ends with the warning and no chart when the GDP or     *)
(* the trade-balance data is empty, and with both charts and no warning    *)
(* otherwise.                                                              *)
(***************************************************************************)
C10_WarningOrCharts ==
    (/\ pc = "done"
     /\ selected = "GDP Growth Rate & Trade Balance"
     /\ \A ind \in Indicators : ~SomeRaised(ind)) =>
        IF \E ind \in Indicators : Started(ind) /\ AllEmpty(ind)
        THEN ShownFor("warning", "") # {} /\ ShownFor("chart_gdp", "") = {}
                                         /\ ShownFor("chart_tb", "") = {}
        ELSE ShownFor("warning", "") = {} /\ ShownFor("chart_gdp", "") # {}
                                         /\ ShownFor("chart_tb", "") # {}
=============================================================================
